---- MODULE Spec2Model ----
(***************************************************************************)
(* Model of the GitHub-backed content synchronisation code of cio:         *)
(*   cio/src/utils.rs       get_file_content_from_repo,                    *)
(*                          create_or_update_file_in_github_repo, trim     *)
(*   cio/src/rfd/github.rs  GitHubRFDRepo, GitHubRFDBranch                 *)
(*                                                                         *)
(* Bytes are modelled as tokens (strings): " " and "\t" are the two        *)
(* whitespace bytes, "\n" is the line terminator, every other token stands *)
(* for a run of non-whitespace bytes.  File contents, paths, links and     *)
(* refs are sequences of tokens.                                           *)
(***************************************************************************)
EXTENDS Integers, Sequences, FiniteSets, TLC

VARIABLES
    files,   \* the remote repository: [branch, path] -> [exists, content]
    sheet,   \* the rows the manifest file on the default branch was written from
    tree,    \* the paths below the document directory on the view's branch
    pulls,   \* the pull requests of the repository, as the listing gives them
    commits, \* the commits of the repository, the most recent first
    last,    \* what the most recent operation was given, did and returned
    runs     \* two invocations of upsert that run at the same time

vars == <<files, sheet, tree, pulls, commits, last, runs>>

-----------------------------------------------------------------------------
(* Generic helpers on sequences of tokens *)

Min(S) == CHOOSE x \in S : \A y \in S : x <= y
Max(S) == CHOOSE x \in S : \A y \in S : x >= y

\* str::contains / slice containment: needle occurs contiguously in hay
contains(hay, needle) ==
    \E i \in 0..(Len(hay) - Len(needle)) :
        \A j \in 1..Len(needle) : hay[i + j] = needle[j]

\* str::starts_with
starts_with(s, prefix) ==
    /\ Len(s) >= Len(prefix)
    /\ \A j \in 1..Len(prefix) : s[j] = prefix[j]

\* str::trim_start_matches(pat): removes the prefix repeatedly, until the
\* string no longer starts with it
RECURSIVE trim_start_matches(_, _)
trim_start_matches(s, pat) ==
    IF pat # <<>> /\ starts_with(s, pat)
    THEN trim_start_matches(SubSeq(s, Len(pat) + 1, Len(s)), pat)
    ELSE s

\* str::replace(from, ""), for a one-token pattern
remove_all(s, tok) == SelectSeq(s, LAMBDA c : c # tok)

RECURSIVE Flatten(_)
Flatten(ss) == IF ss = <<>> THEN <<>> ELSE Head(ss) \o Flatten(Tail(ss))

-----------------------------------------------------------------------------
(* SliceExt::trim, utils.rs:206-226 *)

is_whitespace(c) == c = "\t" \/ c = " "

is_not_whitespace(c) == ~is_whitespace(c)

\* Iterator::position: index of the first element from i on that is no
\* whitespace, 0 when there is none
RECURSIVE position(_, _)
position(self, i) ==
    IF i > Len(self) THEN 0
    ELSE IF is_not_whitespace(self[i]) THEN i
    ELSE position(self, i + 1)

\* Iterator::rposition: index of the last element up to i that is no
\* whitespace, 0 when there is none
RECURSIVE rposition(_, _)
rposition(self, i) ==
    IF i < 1 THEN 0
    ELSE IF is_not_whitespace(self[i]) THEN i
    ELSE rposition(self, i - 1)

trim(self) ==
    LET first == position(self, 1) IN
    IF first # 0
    THEN SubSeq(self, first, rposition(self, Len(self)))
    ELSE <<>>

-----------------------------------------------------------------------------
(* Paths.  A path is a sequence of tokens, "/" being the separator. *)

SEP == "/"

\* utils.rs:60-63 and 123-126: add the starting "/"
normalize_path(path) ==
    IF ~starts_with(path, <<SEP>>) THEN <<SEP>> \o path ELSE path

\* PathBuf::pop: the path without its last component
path_pop(p) ==
    LET seps == {i \in 1..Len(p) : p[i] = SEP} IN
    IF seps = {} THEN <<>>
    ELSE IF Max(seps) = 1 THEN <<SEP>>
    ELSE SubSeq(p, 1, Max(seps) - 1)

\* The key under which the remote stores a path: no leading separators
remote_key(p) == trim_start_matches(p, <<SEP>>)

-----------------------------------------------------------------------------
(* The remote repository and its API (hubcaps / octorust calls) *)

DefaultBranch == "master"

OtherBranch == "2"

Branches == {DefaultBranch, OtherBranch}

F1 == <<"pdfs", "/", "a.pdf">>

F2 == <<"pdfs", "/", "b.pdf">>

ManifestKey == <<".helpers", "/", "rfd.csv">>

\* Every path the remote can hold, in the order a directory listing gives
PathOrder == <<F1, F2, ManifestKey>>

Keys == {PathOrder[i] : i \in 1..Len(PathOrder)}

NoFile == [exists |-> FALSE, content |-> <<>>]

FileOf(c) == [exists |-> TRUE, content |-> c]

\* The revisionId (git blob sha) of a content: a function of the content
\* alone, different for different contents, never empty
Sha(content) == <<"sha1">> \o content

EmptySha == <<>>

lookup(store, branch, p) ==
    IF <<branch, remote_key(p)>> \in DOMAIN store
    THEN store[<<branch, remote_key(p)>>]
    ELSE NoFile

\* Length of a line of the base64 text the blob API returns
B64LineLen == 2

B64Sym(t) == "b64:" \o t

\* All byte tokens that occur in file contents
Bytes == {" ", "\t", "\n", ",", "/", "-", "a", "b", "x", "0xFF",
          "/ModDate", "/CreationDate", "(D:1)", "(D:2)",
          "h1", "h2", "h3", "h4", "h5", "h6", "h7", "t1", "t2", "t3", "t4",
          "num", "link", "1", "2", "7", "-1", "one", "https:", "master", "mast",
          ".adoc", ".md", ".png", ".txt"}

\* What the blob API sends: base64 text broken into lines
RECURSIVE base64_encode_lines(_, _)
base64_encode_lines(bytes, col) ==
    IF bytes = <<>> THEN <<"\n">>
    ELSE IF col = B64LineLen
         THEN <<"\n">> \o base64_encode_lines(bytes, 0)
         ELSE <<B64Sym(Head(bytes))>> \o base64_encode_lines(Tail(bytes), col + 1)

\* base64::decode_config(&v, base64::STANDARD): fails on any symbol outside
\* the alphabet (a line break included)
base64_decode(v) ==
    IF \A i \in 1..Len(v) : \E t \in Bytes : B64Sym(t) = v[i]
    THEN [ok |-> TRUE,
          bytes |-> [i \in 1..Len(v) |-> CHOOSE t \in Bytes : B64Sym(t) = v[i]]]
    ELSE [ok |-> FALSE, bytes |-> <<>>]

Call(api, path, branch, content, sha, resp) ==
    [api |-> api, path |-> path, branch |-> branch, content |-> content,
     sha |-> sha, resp |-> resp]

\* repo.content().file(path, branch): the remote answers with the file, with
\* a 404 fault when it holds none, or with the fault the environment injects
content_file(store, file_path, branch, env) ==
    LET cell == lookup(store, branch, file_path) IN
    IF env.get # "ok" THEN [resp |-> env.get, content |-> <<>>, sha |-> EmptySha]
    ELSE IF cell.exists
         THEN [resp |-> "ok", content |-> cell.content, sha |-> Sha(cell.content)]
         ELSE [resp |-> "NotFound", content |-> <<>>, sha |-> EmptySha]

\* repo.content().iter(dir, branch): the entries directly inside dir
content_iter(store, dir, branch, env) ==
    IF env.list # "ok" THEN [resp |-> env.list, items |-> <<>>]
    ELSE LET here(k) == /\ <<branch, k>> \in DOMAIN store
                        /\ store[<<branch, k>>].exists
                        /\ path_pop(k) = remote_key(dir)
             ks == SelectSeq(PathOrder, here)
         IN  [resp |-> "ok",
              items |-> [i \in 1..Len(ks) |->
                            [path |-> ks[i], sha |-> Sha(store[<<branch, ks[i]>>].content)]]]

\* repo.git().blob(sha): the base64 text of the object with that id
git_blob(store, sha, env) ==
    LET holders == {k \in DOMAIN store : store[k].exists /\ Sha(store[k].content) = sha} IN
    IF env.blob = "fail" \/ holders = {} THEN [resp |-> "fail", content |-> <<>>]
    ELSE LET text == base64_encode_lines(store[CHOOSE k \in holders : TRUE].content, 0) IN
         IF env.blob = "corrupt"
         THEN [resp |-> "ok", content |-> <<"?">> \o text]
         ELSE [resp |-> "ok", content |-> text]

-----------------------------------------------------------------------------
(* get_file_content_from_repo, utils.rs:57-114 *)

GraceSecs == 5

FetchResult(status, bytes, sha, calls, slept) ==
    [status |-> status, bytes |-> bytes, sha |-> sha, calls |-> calls, slept |-> slept]

\* utils.rs:112-113: "By default return nothing"
Sentinel(calls, slept) == FetchResult("ok", <<>>, EmptySha, calls, slept)

\* utils.rs:98-99: decode().unwrap(), then (decoded.trim(), item.sha)
decode_blob(item, decoded, calls) ==
    IF ~decoded.ok
    THEN FetchResult("panic", <<>>, EmptySha, calls, 0)
    ELSE FetchResult("ok", trim(decoded.bytes), item.sha, calls, 0)

\* utils.rs:94-99: the blob of the matching item, base64-decoded and trimmed
fallback_decode(item, blob, calls) ==
    IF blob.resp # "ok"
    THEN FetchResult("panic", <<>>, EmptySha, calls, 0)
    ELSE decode_blob(item, base64_decode(remove_all(blob.content, "\n")), calls)

\* utils.rs:86-99: the first listed item whose path is the file's
fallback_item(store, branch, env, item, calls) ==
    fallback_decode(item, git_blob(store, item.sha, env),
                    Append(calls, Call("blob", <<>>, branch, <<>>, item.sha,
                                       git_blob(store, item.sha, env).resp)))

\* utils.rs:85-100: the loop over the listed items
fallback_search(store, branch, file_path, env, lst, calls) ==
    IF lst.resp # "ok"
    THEN FetchResult("panic", <<>>, EmptySha, calls, 0)
    ELSE IF \A i \in 1..Len(lst.items) :
                lst.items[i].path # trim_start_matches(file_path, <<SEP>>)
    THEN Sentinel(calls, 0)
    ELSE fallback_item(store, branch, env,
                       lst.items[Min({i \in 1..Len(lst.items) :
                           lst.items[i].path = trim_start_matches(file_path, <<SEP>>)})],
                       calls)

\* utils.rs:82-100: the Git Data API fallback for a file that is too large
large_file_fallback(store, branch, file_path, env, call1) ==
    fallback_search(store, branch, file_path, env,
                    content_iter(store, path_pop(file_path), branch, env),
                    <<call1, Call("list", path_pop(file_path), branch, <<>>, EmptySha,
                                  content_iter(store, path_pop(file_path), branch, env).resp)>>)

\* utils.rs:66-110: the match on the answer r of the content call
\* utils.rs:73: thread::sleep, as an entry of the calls of the operation
Sleep(branch) == Call("sleep", <<>>, branch, <<>>, EmptySha, "ok")

fetch_match_retry(store, branch, file_path, env, r, call1) ==
    IF r.resp = "ok"
    THEN FetchResult("ok", r.content, r.sha, <<call1>>, 0)
    ELSE IF r.resp = "RateLimit"
    THEN Sentinel(<<call1, Sleep(branch), call1>>, env.reset + GraceSecs)
    ELSE Sentinel(<<call1>>, 0)

fetch_match(store, branch, file_path, env, r, call1) ==
    IF r.resp = "ok"
    THEN FetchResult("ok", r.content, r.sha, <<call1>>, 0)
    ELSE IF r.resp = "RateLimit"
    THEN Sentinel(<<call1, Sleep(branch)>>, env.reset + GraceSecs)
    ELSE IF r.resp = "TooLarge"
    THEN large_file_fallback(store, branch, file_path, env, call1)
    ELSE Sentinel(<<call1>>, 0)

fetch_normalized(store, branch, file_path, env, r) ==
    fetch_match(store, branch, file_path, env, r,
                Call("get_content", file_path, branch, <<>>, EmptySha, r.resp))

get_file_content_from_repo(store, branch, path, env) ==
    fetch_normalized(store, branch, normalize_path(path), env,
                     content_file(store, normalize_path(path), branch, env))

-----------------------------------------------------------------------------
(* diffy::create_patch_bytes and Patch::to_bytes: a line diff in unified    *)
(* format with three lines of context                                       *)

ContextLen == 3

\* The lines of a content, each with its terminating "\n" (the last line
\* may lack one)
RECURSIVE split_lines(_, _)
split_lines(bytes, cur) ==
    IF bytes = <<>> THEN (IF cur = <<>> THEN <<>> ELSE <<cur>>)
    ELSE IF Head(bytes) = "\n"
         THEN <<Append(cur, "\n")>> \o split_lines(Tail(bytes), <<>>)
         ELSE split_lines(Tail(bytes), Append(cur, Head(bytes)))

NoScript == [ok |-> FALSE, s |-> <<>>]

Tagged(tag, ls) == [i \in 1..Len(ls) |-> [tag |-> tag, line |-> ls[i]]]

\* An edit script turning old lines A into new lines B with at most d
\* deletions and insertions, deletions first
RECURSIVE edit_script(_, _, _)
edit_script(A, B, d) ==
    IF A = <<>>
    THEN (IF Len(B) <= d THEN [ok |-> TRUE, s |-> Tagged("+", B)] ELSE NoScript)
    ELSE IF B = <<>>
    THEN (IF Len(A) <= d THEN [ok |-> TRUE, s |-> Tagged("-", A)] ELSE NoScript)
    ELSE IF Head(A) = Head(B)
    THEN LET r == edit_script(Tail(A), Tail(B), d) IN
         IF r.ok THEN [ok |-> TRUE, s |-> Tagged(" ", <<Head(A)>>) \o r.s] ELSE NoScript
    ELSE IF d = 0 THEN NoScript
    ELSE LET del == edit_script(Tail(A), B, d - 1) IN
         IF del.ok THEN [ok |-> TRUE, s |-> Tagged("-", <<Head(A)>>) \o del.s]
         ELSE LET ins == edit_script(A, Tail(B), d - 1) IN
              IF ins.ok THEN [ok |-> TRUE, s |-> Tagged("+", <<Head(B)>>) \o ins.s]
              ELSE NoScript

\* The shortest edit script (Myers): the least number of edits is at least
\* the difference of the lengths and has the parity of their sum
RECURSIVE shortest_script(_, _, _)
shortest_script(A, B, d) ==
    LET r == edit_script(A, B, d) IN
    IF r.ok THEN r.s ELSE shortest_script(A, B, d + 2)

distance_bound(A, B) == IF Len(A) >= Len(B) THEN Len(A) - Len(B) ELSE Len(B) - Len(A)

\* Length of the longest common prefix of two sequences of lines
RECURSIVE common_prefix(_, _, _)
common_prefix(A, B, n) ==
    IF n < Len(A) /\ n < Len(B) /\ A[n + 1] = B[n + 1]
    THEN common_prefix(A, B, n + 1)
    ELSE n

\* Length of the longest common suffix that leaves the first p lines alone
RECURSIVE common_suffix(_, _, _, _)
common_suffix(A, B, p, n) ==
    IF n < Len(A) - p /\ n < Len(B) - p /\ A[Len(A) - n] = B[Len(B) - n]
    THEN common_suffix(A, B, p, n + 1)
    ELSE n

\* The diff of two sequences of lines: the lines they start and end with in
\* common are context, the rest is the shortest edit script
diff_lines(A, B) ==
    LET p == common_prefix(A, B, 0)
        q == common_suffix(A, B, p, 0)
    IN  Tagged(" ", SubSeq(A, 1, p))
            \o LET Am == SubSeq(A, p + 1, Len(A) - q)
                   Bm == SubSeq(B, p + 1, Len(B) - q)
               IN  shortest_script(Am, Bm, distance_bound(Am, Bm))
            \o Tagged(" ", SubSeq(A, Len(A) - q + 1, Len(A)))

old_lines(s, from, to) == Cardinality({k \in from..to : s[k].tag # "+"})

new_lines(s, from, to) == Cardinality({k \in from..to : s[k].tag # "-"})

\* The hunks of a script: changes closer than two context lengths share a
\* hunk; a hunk is [from, to], a range of the script.  k runs over the
\* script, a is the first change of the open hunk and b its last (0: none)
RECURSIVE hunks_from(_, _, _, _)
hunks_from(s, k, a, b) ==
    LET lo == IF a - ContextLen < 1 THEN 1 ELSE a - ContextLen
        hi == IF b + ContextLen > Len(s) THEN Len(s) ELSE b + ContextLen
    IN  IF k > Len(s)
        THEN (IF a = 0 THEN <<>> ELSE <<[from |-> lo, to |-> hi]>>)
        ELSE IF s[k].tag = " " THEN hunks_from(s, k + 1, a, b)
        ELSE IF a = 0 THEN hunks_from(s, k + 1, k, k)
        ELSE IF k - b - 1 < 2 * ContextLen THEN hunks_from(s, k + 1, a, k)
        ELSE <<[from |-> lo, to |-> hi]>> \o hunks_from(s, k + 1, k, k)

hunks_of(s) == hunks_from(s, 1, 0, 0)

\* HunkRange in the "@@" line: start, then ",len" unless len is 1
hunk_range(start, len) ==
    IF len = 1 THEN ToString(start) ELSE ToString(start) \o "," \o ToString(len)

hunk_header(s, h) ==
    LET ol == old_lines(s, h.from, h.to)
        nl == new_lines(s, h.from, h.to)
        ob == old_lines(s, 1, h.from - 1)
        nb == new_lines(s, 1, h.from - 1)
        os == IF ol = 0 THEN ob ELSE ob + 1
        ns == IF nl = 0 THEN nb ELSE nb + 1
    IN  "@@ -" \o hunk_range(os, ol) \o " +" \o hunk_range(ns, nl) \o " @@"

render_line(e) ==
    IF e.line[Len(e.line)] = "\n"
    THEN <<e.tag>> \o e.line
    ELSE <<e.tag>> \o e.line \o <<"\n", "\\ No newline at end of file", "\n">>

render_hunk(s, h) ==
    <<hunk_header(s, h), "\n">>
        \o Flatten([k \in 1..(h.to - h.from + 1) |-> render_line(s[h.from + k - 1])])

\* Patch::to_bytes
patch_to_bytes(s) ==
    LET hs == hunks_of(s) IN
    <<"--- original", "\n", "+++ modified", "\n">>
        \o Flatten([i \in 1..Len(hs) |-> render_hunk(s, hs[i])])

create_patch_bytes(original, modified) ==
    diff_lines(split_lines(original, <<>>), split_lines(modified, <<>>))

\* std::str::from_utf8(&bdiff).unwrap_or(""): the token "0xFF" stands for
\* bytes that are no UTF-8
from_utf8_or_empty(bytes) ==
    IF \E i \in 1..Len(bytes) : bytes[i] = "0xFF" THEN <<>> ELSE bytes

-----------------------------------------------------------------------------
(* The contents the model draws from *)

\* A generated PDF: twelve lines, the creation date on line 8 and the
\* modification date on line 9; l6 is line 6 and d the date the two carry
PdfDoc(l6, d) ==
    <<"h1", "\n", "h2", "\n", "h3", "\n", "h4", "\n", "h5", "\n", l6, "\n", "h7", "\n",
      "/CreationDate", d, "\n", "/ModDate", d, "\n",
      "t1", "\n", "t2", "\n", "t3", "\n">>

P11 == PdfDoc("h6", "(D:1)")

\* P11 generated again: both dates are new
P22 == PdfDoc("h6", "(D:2)")

\* As P11 and P22, with binary bytes on line 6
PB11 == PdfDoc("0xFF", "(D:1)")

PB22 == PdfDoc("0xFF", "(D:2)")

-----------------------------------------------------------------------------
(* create_or_update_file_in_github_repo, utils.rs:119-200 *)

\* repo.content().update(path, content, message, sha, branch): the remote
\* replaces the file when it holds one whose current sha is the one given
content_update(store, file_path, content, sha, branch, env) ==
    LET cell == lookup(store, branch, file_path)
        k == <<branch, remote_key(file_path)>>
    IN  IF env.write = "ok" /\ cell.exists /\ Sha(cell.content) = sha
        THEN [resp |-> "ok", store |-> [store EXCEPT ![k] = FileOf(content)]]
        ELSE [resp |-> "fail", store |-> store]

\* repo.content().create(path, content, message, branch): the remote adds
\* the file when it holds none at the path
content_create(store, file_path, content, branch, env) ==
    LET cell == lookup(store, branch, file_path)
        k == <<branch, remote_key(file_path)>>
    IN  IF env.write = "ok" /\ ~cell.exists /\ k \in DOMAIN store
        THEN [resp |-> "ok", store |-> [store EXCEPT ![k] = FileOf(content)]]
        ELSE [resp |-> "fail", store |-> store]

is_existing_never(existing_content, sha) == FALSE

\* utils.rs:131
is_existing(existing_content, sha) == existing_content # <<>> \/ sha # EmptySha

\* utils.rs:145
is_cosmetic_diff(str_diff) ==
    /\ contains(str_diff, <<"-", "/ModDate">>)
    /\ contains(str_diff, <<"-", "/CreationDate">>)
    /\ contains(str_diff, <<"+", "/ModDate">>)
    /\ contains(str_diff, <<"-", "/CreationDate">>)
    /\ contains(str_diff, <<"@@ -5,8 +5,8 @@">>)

needs_update_always(content, existing_content) == TRUE

\* utils.rs:132-150: FALSE on either early return
needs_update(content, existing_content) ==
    IF content = existing_content THEN FALSE
    ELSE LET diff == create_patch_bytes(existing_content, content)
             bdiff == patch_to_bytes(diff)
             str_diff == from_utf8_or_empty(bdiff)
         IN  ~is_cosmetic_diff(str_diff)

UpsertResult(status, outcome, store, calls, f) ==
    [status |-> status, outcome |-> outcome, store |-> store, calls |-> calls,
     bytes |-> f.bytes, sha |-> f.sha, slept |-> f.slept]

after_write_retry(api, done, failed, file_path, branch, content, sha, f, w) ==
    UpsertResult("ok", IF w.resp = "ok" THEN done ELSE failed, w.store,
                 IF w.resp = "ok"
                 THEN Append(f.calls, Call(api, file_path, branch, content, sha, w.resp))
                 ELSE f.calls \o <<Call(api, file_path, branch, content, sha, w.resp),
                                   Call(api, file_path, branch, content, sha, w.resp)>>, f)

\* utils.rs:166-175 and 191-199: the answer w of the write call is logged
after_write(api, done, failed, file_path, branch, content, sha, f, w) ==
    UpsertResult("ok", IF w.resp = "ok" THEN done ELSE failed, w.store,
                 Append(f.calls, Call(api, file_path, branch, content, sha, w.resp)), f)

upsert_fetched_current_sha(store, branch, file_path, content, env, f) ==
    IF f.status = "panic"
    THEN UpsertResult("panic", "panic", store, f.calls, f)
    ELSE IF is_existing(f.bytes, f.sha)
    THEN IF ~needs_update(content, f.bytes)
         THEN UpsertResult("ok", "same", store, f.calls, f)
         ELSE after_write("update", "updated", "update_failed", file_path, branch,
                          content, Sha(lookup(store, branch, file_path).content), f,
                          content_update(store, file_path, content,
                                         Sha(lookup(store, branch, file_path).content),
                                         branch, env))
    ELSE after_write("create", "created", "create_failed", file_path, branch,
                     content, EmptySha, f,
                     content_create(store, file_path, content, branch, env))

\* utils.rs:131-200: what upsert does with the outcome f of its fetch
upsert_fetched(store, branch, file_path, content, env, f) ==
    IF f.status = "panic"
    THEN UpsertResult("panic", "panic", store, f.calls, f)
    ELSE IF is_existing(f.bytes, f.sha)
    THEN IF ~needs_update(content, f.bytes)
         THEN UpsertResult("ok", "same", store, f.calls, f)
         ELSE after_write("update", "updated", "update_failed", file_path, branch,
                          content, f.sha, f,
                          content_update(store, file_path, content, f.sha, branch, env))
    ELSE after_write("create", "created", "create_failed", file_path, branch,
                     content, EmptySha, f,
                     content_create(store, file_path, content, branch, env))

create_or_update_as_given(store, branch, path, new_content, env) ==
    upsert_fetched(store, branch, path, new_content, env,
                   get_file_content_from_repo(store, branch, path, env))

create_or_update_file_in_github_repo(store, branch, path, new_content, env) ==
    upsert_fetched(store, branch, normalize_path(path), trim(new_content), env,
                   get_file_content_from_repo(store, branch, path, env))

-----------------------------------------------------------------------------
(* GitHubRFDRepo::get_rfd_sync_updates, github.rs:68-106 *)

\* A manifest row as written: the text of its num column and of its link
\* column.  The file is a header line and one line per row.
RenderRow(r) == <<r.num, ",">> \o r.link \o <<"\n">>

RenderCsv(rows) ==
    <<"num", ",", "link", "\n">> \o Flatten([i \in 1..Len(rows) |-> RenderRow(rows[i])])

\* The fields of a record: the text between the delimiters
RECURSIVE split_fields(_, _)
split_fields(line, cur) ==
    IF line = <<>> THEN <<cur>>
    ELSE IF Head(line) = "\n" THEN split_fields(Tail(line), cur)
    ELSE IF Head(line) = "," THEN <<cur>> \o split_fields(Tail(line), <<>>)
    ELSE split_fields(Tail(line), Append(cur, Head(line)))

\* str::parse::<i32> on the texts the model uses
I32Of == ("1" :> 1) @@ ("2" :> 2) @@ ("7" :> 7) @@ ("-1" :> (0 - 1))

\* csv deserialize::<RFDCsvRow>, github.rs:422-426: num: i32, link: String;
\* a record with another number of fields than the header is an error
deserialize_row(fields) ==
    IF Len(fields) = 2 /\ Len(fields[1]) = 1 /\ fields[1][1] \in DOMAIN I32Of
    THEN [ok |-> TRUE, num |-> I32Of[fields[1][1]], link |-> fields[2]]
    ELSE [ok |-> FALSE, num |-> 0, link |-> <<>>]

\* ReaderBuilder ... has_headers(true): the records after the header line
csv_rows(bytes) ==
    LET ls == split_lines(bytes, <<>>) IN
    [i \in 1..(IF Len(ls) = 0 THEN 0 ELSE Len(ls) - 1) |->
        deserialize_row(split_fields(ls[i + 1], <<>>))]

\* RFDNumber::as_number_string
as_number_string(number) == ToString(number)

branch_name_always_number(default_branch, row) == as_number_string(row.num)

\* github.rs:93-97
branch_name(default_branch, row) ==
    IF contains(row.link, <<"/", default_branch, "/">>)
    THEN default_branch
    ELSE as_number_string(row.num)

\* GitHubRFDRepo::branch, github.rs:56-64
branch_view(default_branch, branch) ==
    [default_branch |-> default_branch, branch |-> branch]

\* github.rs:99-102
sync_update(default_branch, row) ==
    [number |-> row.num, branch |-> branch_view(default_branch, branch_name(default_branch, row))]

\* github.rs:87-105: filter_map(|row| row.ok().map(...)).collect()
RECURSIVE sync_updates(_, _)
sync_updates(default_branch, rows) ==
    IF rows = <<>> THEN <<>>
    ELSE IF Head(rows).ok
         THEN <<sync_update(default_branch, Head(rows))>> \o sync_updates(default_branch, Tail(rows))
         ELSE sync_updates(default_branch, Tail(rows))

OpResult(status, out, f) ==
    [status |-> status, out |-> out, calls |-> f.calls, bytes |-> f.bytes, sha |-> f.sha]

\* github.rs:79-105: what is made of the outcome f of the fetch
manifest_fetched(default_branch, f) ==
    IF f.status = "panic" THEN OpResult("panic", <<>>, f)
    ELSE IF from_utf8_or_empty(f.bytes) # f.bytes THEN OpResult("err", <<>>, f)
    ELSE OpResult("ok", sync_updates(default_branch, csv_rows(f.bytes)), f)

get_rfd_sync_updates(store, default_branch, env) ==
    manifest_fetched(default_branch,
        get_file_content_from_repo(store, default_branch, <<SEP>> \o ManifestKey, env))

-----------------------------------------------------------------------------
(* GitHubRFDBranch, github.rs:108-377: the tree of the view's branch *)

\* The branch whose tree the model follows; a view of any other branch finds
\* no document directory
TreeBranch == OtherBranch

DocNumbers == {1, 2}

\* RFDNumber::repo_directory
repo_directory(number) == <<SEP, "rfd", SEP, as_number_string(number)>>

Under(dir, name) == dir \o <<SEP>> \o name

DocDir == <<"rfd", SEP, "1">>

SubDir == Under(DocDir, <<"sub">>)

DeepDir == Under(SubDir, <<"deep">>)

MoreDir == Under(DeepDir, <<"more">>)

\* Directories whose names end like the name of an image
PngDir == Under(DocDir, <<"s", ".png">>)

SubPngDir == Under(SubDir, <<"d", ".png">>)

\* A directory of the document with the name of the documents' directory
RfdDir == Under(DocDir, <<"rfd">>)

\* The last component of a path
file_name(p) ==
    LET seps == {i \in 1..Len(p) : p[i] = SEP} IN
    IF seps = {} THEN p ELSE SubSeq(p, Max(seps) + 1, Len(p))

\* The bytes of the file at a path of the tree
content_of(p) == <<"h1", p[Len(p)]>>

\* An entry as a directory listing gives it (octorust ContentFile / entries)
Entry(path, type_) ==
    [name |-> file_name(path), path |-> path, type_ |-> type_,
     sha |-> IF type_ = "file" THEN Sha(content_of(path)) ELSE <<"tree">> \o path,
     content |-> <<>>]

\* Every entry the tree can hold, in the order the listings give them
TreeEntries ==
    <<Entry(Under(DocDir, <<"README", ".adoc">>), "file"),
      Entry(Under(DocDir, <<"README", ".md">>), "file"),
      Entry(Under(DocDir, <<"a", ".png">>), "file"),
      Entry(PngDir, "dir"),
      Entry(Under(PngDir, <<"g", ".png">>), "file"),
      Entry(SubDir, "dir"),
      Entry(Under(SubDir, <<"c", ".png">>), "file"),
      Entry(SubPngDir, "dir"),
      Entry(Under(SubPngDir, <<"f", ".png">>), "file"),
      Entry(DeepDir, "dir"),
      Entry(Under(DeepDir, <<"e", ".png">>), "file"),
      Entry(MoreDir, "dir"),
      Entry(Under(MoreDir, <<"h", ".png">>), "file"),
      Entry(Under(SubDir, <<"m", ".txt">>), "file"),
      Entry(RfdDir, "dir"),
      Entry(Under(RfdDir, <<"r", ".png">>), "file"),
      Entry(Under(<<"rfd", SEP, "2">>, <<"README", ".md">>), "file")>>

\* The files the tree can hold; a directory is there when a file is below it
TreeFiles ==
    {TreeEntries[i].path : i \in {j \in 1..Len(TreeEntries) : TreeEntries[j].type_ = "file"}}

is_under(p, dir) ==
    /\ Len(p) > Len(dir) + 1
    /\ SubSeq(p, 1, Len(dir)) = dir
    /\ p[Len(dir) + 1] = SEP

present(t, e) ==
    IF e.type_ = "file" THEN e.path \in t ELSE \E p \in t : is_under(p, e.path)

dir_entries(t, key) ==
    SelectSeq(TreeEntries, LAMBDA e : present(t, e) /\ path_pop(e.path) = key)

html_url(branch, key) == <<"https:", SEP, branch, SEP>> \o key

\* The answer of the remote to the next call of an operation that made calls
answer(calls, env) == IF Len(calls) + 1 = env.fault_at THEN "Fault" ELSE "ok"

\* client.repos().get_content_file(owner, repo, path, branch)
get_content_file(t, path, branch, ans) ==
    IF ans # "ok"
    THEN [resp |-> ans, content |-> <<>>, sha |-> EmptySha, html_url |-> <<>>]
    ELSE IF branch = TreeBranch /\ remote_key(path) \in t
    THEN [resp |-> "ok",
          content |-> base64_encode_lines(content_of(remote_key(path)), 0),
          sha |-> Sha(content_of(remote_key(path))),
          html_url |-> html_url(branch, remote_key(path))]
    ELSE [resp |-> "NotFound", content |-> <<>>, sha |-> EmptySha, html_url |-> <<>>]

\* client.repos().get_content_vec_entries(owner, repo, dir, branch)
get_content_vec_entries(t, dir, branch, ans) ==
    IF ans # "ok" THEN [resp |-> ans, items |-> <<>>]
    ELSE IF branch # TreeBranch \/ dir_entries(t, remote_key(dir)) = <<>>
    THEN [resp |-> "NotFound", items |-> <<>>]
    ELSE [resp |-> "ok", items |-> dir_entries(t, remote_key(dir))]

\* What an operation of a view returns and the calls it made
ViewResult(status, outcome, out, calls) ==
    [status |-> status, outcome |-> outcome, out |-> out, calls |-> calls]

-----------------------------------------------------------------------------
(* GitHubRFDBranch::get_readme_contents, github.rs:144-216 *)

\* decode_base64_to_string
decode_base64_to_string(c) == trim(base64_decode(remove_all(c, "\n")).bytes)

\* github.rs:199-215
readme(file, f, is_markdown, view) ==
    [content |-> [format |-> IF is_markdown THEN "markdown" ELSE "asciidoc",
                  text |-> decode_base64_to_string(f.content)],
     link |-> f.html_url, sha |-> f.sha,
     location |-> [file |-> file, branch |-> view]]

readme_md_as_adoc(view, md_path, f, calls) ==
    IF f.resp # "ok"
    THEN ViewResult("err", f.resp, <<>>, calls)
    ELSE ViewResult("ok", "", <<readme(md_path, f, FALSE, view)>>, calls)

\* github.rs:185-196: the answer f to the request for README.md
readme_md(view, md_path, f, calls) ==
    IF f.resp # "ok"
    THEN ViewResult("err", f.resp, <<>>, calls)
    ELSE ViewResult("ok", "", <<readme(md_path, f, TRUE, view)>>, calls)

readme_match_first_error(t, view, dir, path, f, env, call1) ==
    IF f.resp = "ok"
    THEN ViewResult("ok", "", <<readme(path, f, FALSE, view)>>, <<call1>>)
    ELSE [readme_md(view, Under(dir, <<"README", ".md">>),
                    get_content_file(t, Under(dir, <<"README", ".md">>), view.branch,
                                     answer(<<call1>>, env)),
                    <<call1, Call("get_content", Under(dir, <<"README", ".md">>), view.branch,
                                  <<>>, EmptySha,
                                  get_content_file(t, Under(dir, <<"README", ".md">>),
                                                   view.branch, answer(<<call1>>, env)).resp)>>)
             EXCEPT !.outcome = IF @ = "" THEN "" ELSE f.resp]

\* github.rs:173-197: the match on the answer f to the request for README.adoc
readme_match(t, view, dir, path, f, env, call1) ==
    IF f.resp = "ok"
    THEN ViewResult("ok", "", <<readme(path, f, FALSE, view)>>, <<call1>>)
    ELSE readme_md(view, Under(dir, <<"README", ".md">>),
                   get_content_file(t, Under(dir, <<"README", ".md">>), view.branch,
                                    answer(<<call1>>, env)),
                   <<call1, Call("get_content", Under(dir, <<"README", ".md">>), view.branch,
                                 <<>>, EmptySha,
                                 get_content_file(t, Under(dir, <<"README", ".md">>),
                                                  view.branch, answer(<<call1>>, env)).resp)>>)

readme_requested(t, view, dir, path, f, env) ==
    readme_match(t, view, dir, path, f, env,
                 Call("get_content", path, view.branch, <<>>, EmptySha, f.resp))

get_readme_contents(t, view, rfd_number, env) ==
    readme_requested(t, view, repo_directory(rfd_number),
                     Under(repo_directory(rfd_number), <<"README", ".adoc">>),
                     get_content_file(t, Under(repo_directory(rfd_number), <<"README", ".adoc">>),
                                      view.branch, answer(<<>>, env)),
                     env)

-----------------------------------------------------------------------------
(* GitHubRFDBranch::get_images, github.rs:258-314 *)

ImageExtensions == {".png", ".jpg"}

\* is_image: the name ends in one of the image extensions
is_image(name) == Len(name) >= 2 /\ name[Len(name)] \in ImageExtensions

\* str::trim_end_matches(pat)
RECURSIVE trim_end_matches(_, _)
trim_end_matches(s, pat) ==
    IF pat # <<>> /\ Len(s) >= Len(pat) /\ SubSeq(s, Len(s) - Len(pat) + 1, Len(s)) = pat
    THEN trim_end_matches(SubSeq(s, 1, Len(s) - Len(pat)), pat)
    ELSE s

\* crate::utils::get_github_file: the entry with its content fetched
get_github_file(t, branch, file, ans) ==
    IF ans # "ok" THEN [resp |-> ans, file |-> file]
    ELSE [resp |-> "ok",
          file |-> [file EXCEPT !.content =
                       IF file.type_ = "file"
                       THEN base64_encode_lines(content_of(file.path), 0)
                       ELSE <<>>]]

\* get_github_file(...).await?; files.push(f)
push_file(acc, r, call) ==
    IF r.resp # "ok"
    THEN [acc EXCEPT !.status = "err", !.outcome = r.resp, !.calls = Append(@, call)]
    ELSE [acc EXCEPT !.out = Append(@, r.file), !.calls = Append(@, call)]

\* github.rs:296-301 and 305-309
image_check(acc, t, branch, file, env) ==
    IF acc.status = "ok" /\ is_image(file.name)
    THEN push_file(acc, get_github_file(t, branch, file, answer(acc.calls, env)),
                   Call("get_file", file.path, branch, <<>>, file.sha,
                        answer(acc.calls, env)))
    ELSE acc

RECURSIVE walk_inner_deeper(_, _, _, _, _)
walk_inner_deeper(acc, t, branch, resp2, env) ==
    IF resp2 = <<>> \/ acc.status # "ok" THEN acc
    ELSE walk_inner_deeper(
             IF Head(resp2).type_ = "dir"
             THEN walk_inner_deeper(
                      [acc EXCEPT !.calls = Append(@, Call("list", Head(resp2).path, branch,
                                                           <<>>, EmptySha, "ok"))],
                      t, branch,
                      get_content_vec_entries(t, Head(resp2).path, branch, "ok").items, env)
             ELSE image_check(acc, t, branch, Head(resp2), env),
             t, branch, Tail(resp2), env)

\* github.rs:284-302: for file2 in resp2
RECURSIVE walk_inner(_, _, _, _, _)
walk_inner(acc, t, branch, resp2, env) ==
    IF resp2 = <<>> \/ acc.status # "ok" THEN acc
    ELSE walk_inner(IF Head(resp2).type_ = "dir"
                    THEN acc
                    ELSE image_check(acc, t, branch, Head(resp2), env),
                    t, branch, Tail(resp2), env)

\* github.rs:279-302: the answer r to the listing of a directory of depth 1
listed(acc, t, branch, path, env, r) ==
    IF r.resp # "ok"
    THEN [acc EXCEPT !.status = "err", !.outcome = r.resp,
                     !.calls = Append(@, Call("list", path, branch, <<>>, EmptySha, r.resp))]
    ELSE walk_inner([acc EXCEPT !.calls = Append(@, Call("list", path, branch, <<>>,
                                                         EmptySha, r.resp))],
                    t, branch, r.items, env)

\* github.rs:276-303
dir_check(acc, t, branch, file, env) ==
    IF acc.status = "ok" /\ file.type_ = "dir"
    THEN listed(acc, t, branch, trim_end_matches(file.path, <<SEP>>), env,
                get_content_vec_entries(t, trim_end_matches(file.path, <<SEP>>), branch,
                                        answer(acc.calls, env)))
    ELSE acc

\* github.rs:270-310: for file in resp
RECURSIVE walk_outer(_, _, _, _, _)
walk_outer(acc, t, branch, resp, env) ==
    IF resp = <<>> \/ acc.status # "ok" THEN acc
    ELSE walk_outer(image_check(dir_check(acc, t, branch, Head(resp), env),
                                t, branch, Head(resp), env),
                    t, branch, Tail(resp), env)

\* github.rs:264-270: the answer r to the listing of the document directory
images_listed(t, branch, dir, env, r) ==
    IF r.resp # "ok"
    THEN ViewResult("err", r.resp, <<>>,
                    <<Call("list", dir, branch, <<>>, EmptySha, r.resp)>>)
    ELSE walk_outer(ViewResult("ok", "", <<>>,
                               <<Call("list", dir, branch, <<>>, EmptySha, r.resp)>>),
                    t, branch, r.items, env)

\* An error return carries no files
images_result(w) == IF w.status = "ok" THEN w ELSE [w EXCEPT !.out = <<>>]

get_images(t, view, rfd_number, env) ==
    images_result(
        images_listed(t, view.branch, repo_directory(rfd_number), env,
                      get_content_vec_entries(t, repo_directory(rfd_number), view.branch,
                                              answer(<<>>, env))))

-----------------------------------------------------------------------------
(* GitHubRFDBranch::copy_images_to_frontend, github.rs:218-255 *)

StaticImages == <<"src/public/static/images", SEP>>

\* str::replace(from, to): every occurrence, from the left
RECURSIVE replace(_, _, _)
replace(s, from, to) ==
    IF s = <<>> THEN <<>>
    ELSE IF starts_with(s, from)
    THEN to \o replace(SubSeq(s, Len(from) + 1, Len(s)), from, to)
    ELSE <<Head(s)>> \o replace(Tail(s), from, to)

\* decode_base64: the bytes of a base64 text with line breaks
decode_base64(c) == base64_decode(remove_all(c, "\n")).bytes

\* github.rs:243-252: the upsert of an image returned r
copied(acc, branch, new_path, content, r) ==
    [acc EXCEPT !.status = IF r.status = "panic" THEN "panic" ELSE "ok",
                !.outcome = IF r.status = "panic" THEN "panic" ELSE "",
                !.store = r.store,
                !.calls = @ \o r.calls,
                !.ups = Append(@, [branch |-> branch, path |-> new_path,
                                   content |-> content, outcome |-> r.outcome,
                                   writes |-> Cardinality({i \in 1..Len(r.calls) :
                                                 r.calls[i].api \in {"create", "update"}})])]

\* github.rs:234-252: for image in images; the process may be killed after
\* env.kill_after of the upserts, and the remote answers the calls of the
\* upsert env.at with the faults of env.up
RECURSIVE copy_loop(_, _, _, _)
copy_loop(acc, images, default_branch, env) ==
    IF images = <<>> \/ acc.status # "ok" THEN acc
    ELSE IF Len(acc.ups) = env.kill_after THEN [acc EXCEPT !.status = "killed"]
    ELSE copy_loop(
             copied(acc, default_branch, replace(Head(images).path, <<"rfd", SEP>>, StaticImages),
                    decode_base64(Head(images).content),
                    create_or_update_file_in_github_repo(
                        acc.store, default_branch,
                        replace(Head(images).path, <<"rfd", SEP>>, StaticImages),
                        decode_base64(Head(images).content),
                        IF Len(acc.ups) + 1 = env.at THEN env.up
                        ELSE [get |-> "ok", list |-> "ok", blob |-> "ok",
                              write |-> "ok", reset |-> 0])),
             Tail(images), default_branch, env)

\* github.rs:225: let images = self.get_images(rfd_number).await?
copy_walked(store, view, env, w) ==
    IF w.status # "ok"
    THEN [status |-> "err", outcome |-> w.outcome, out |-> <<>>, calls |-> w.calls,
          store |-> store, ups |-> <<>>]
    ELSE copy_loop([status |-> "ok", outcome |-> "", out |-> w.out, calls |-> w.calls,
                    store |-> store, ups |-> <<>>],
                   w.out, view.default_branch, env)

copy_images_to_frontend(t, store, view, rfd_number, env) ==
    copy_walked(store, view, env, get_images(t, view, rfd_number, env))

-----------------------------------------------------------------------------
(* GitHubRFDBranch::find_pull_requests, github.rs:317-348 *)

RefsHeads == "refs/heads/"

\* The string a sequence of tokens spells
RECURSIVE as_str(_)
as_str(s) == IF s = <<>> THEN "" ELSE Head(s) \o as_str(Tail(s))

\* client.pulls().list_all(owner, repo, All, "", "", ...)
pulls_list_all(ps, ans) ==
    IF ans # "ok" THEN [resp |-> ans, items |-> <<>>] ELSE [resp |-> "ok", items |-> ps]

\* github.rs:338-345: for pull in pulls
RECURSIVE matching_pulls(_, _)
matching_pulls(items, branch) ==
    IF items = <<>> THEN <<>>
    ELSE IF as_str(trim_start_matches(Head(items).head.ref_, <<RefsHeads>>)) = branch
         THEN <<Head(items)>> \o matching_pulls(Tail(items), branch)
         ELSE matching_pulls(Tail(items), branch)

pulls_listed(view, r) ==
    IF r.resp # "ok"
    THEN ViewResult("err", r.resp, <<>>, <<Call("pulls", <<>>, "", <<>>, EmptySha, r.resp)>>)
    ELSE ViewResult("ok", "", matching_pulls(r.items, view.branch),
                    <<Call("pulls", <<>>, "", <<>>, EmptySha, r.resp)>>)

find_pull_requests(ps, view, env) ==
    pulls_listed(view, pulls_list_all(ps, answer(<<>>, env)))

-----------------------------------------------------------------------------
(* GitHubRFDBranch::get_latest_commit_date, github.rs:350-377 *)

\* client.repos().list_commits(owner, repo, sha, path, ...): the commits
\* reachable from the branch that touch the path; a branch without a commit
\* is not there
list_commits(cs, branch, path, ans) ==
    IF ans # "ok" THEN [resp |-> ans, items |-> <<>>]
    ELSE IF \A i \in 1..Len(cs) : cs[i].branch # branch
    THEN [resp |-> "NotFound", items |-> <<>>]
    ELSE [resp |-> "ok",
          items |-> SelectSeq(cs, LAMBDA c : c.branch = branch /\ c.path = remote_key(path))]

\* str::parse::<DateTime<Utc>>: the year, the rest of the timestamp and the
\* offset, which must be that of UTC in either spelling
parse_date(s) ==
    IF Len(s) = 3 /\ s[1] \in {"2020", "2021"} /\ s[3] \in {"Z", "+00:00"}
    THEN [ok |-> TRUE, year |-> IF s[1] = "2020" THEN 2020 ELSE 2021, rest |-> s[2]]
    ELSE [ok |-> FALSE, year |-> 0, rest |-> ""]

first_commit_with_committer(items, calls) ==
    IF SelectSeq(items, LAMBDA c : c.committer.some) = <<>>
    THEN ViewResult("err", "no committer", <<>>, calls)
    ELSE ViewResult("ok", "",
                    <<parse_date(Head(SelectSeq(items, LAMBDA c : c.committer.some)).committer.date)>>,
                    calls)

\* github.rs:366-376: commits.get(0), its committer and the date parsed
first_commit(items, calls) ==
    IF items = <<>> THEN ViewResult("err", "no commits", <<>>, calls)
    ELSE IF ~items[1].committer.some THEN ViewResult("err", "no committer", <<>>, calls)
    ELSE IF ~parse_date(items[1].committer.date).ok
    THEN ViewResult("err", "parse", <<>>, calls)
    ELSE ViewResult("ok", "", <<parse_date(items[1].committer.date)>>, calls)

\* github.rs:351-376: the answer r to the listing
commits_listed(view, path, r) ==
    IF r.resp # "ok"
    THEN ViewResult("err", r.resp, <<>>,
                    <<Call("list_commits", path, view.branch, <<>>, EmptySha, r.resp)>>)
    ELSE first_commit(r.items,
                      <<Call("list_commits", path, view.branch, <<>>, EmptySha, r.resp)>>)

get_latest_commit_date(cs, view, rfd_number, env) ==
    commits_listed(view, repo_directory(rfd_number),
                   list_commits(cs, view.branch, repo_directory(rfd_number),
                                answer(<<>>, env)))

-----------------------------------------------------------------------------
(* The content writer and fetcher as a state machine *)

\* Seconds a rate-limited answer may ask to wait
MaxReset == 1

EnvOf(g, l, bl, w, rs) == [get |-> g, list |-> l, blob |-> bl, write |-> w, reset |-> rs]

\* What the remote may answer to the calls of one fetch: to the content call
\* (with the reset interval of a rate-limit answer), and to the listing and
\* blob calls of the large-file fallback
FetchEnv ==
    {EnvOf(g, "ok", "ok", "ok", 0) : g \in {"ok", "Fault", "Other"}}
    \cup {EnvOf("RateLimit", "ok", "ok", "ok", rs) : rs \in 0..MaxReset}
    \cup {EnvOf("TooLarge", "fail", "ok", "ok", 0)}
    \cup {EnvOf("TooLarge", "ok", bl, "ok", 0) : bl \in {"ok", "fail", "corrupt"}}

\* What the remote may answer to the calls of one upsert: as for a fetch,
\* and to the write
UpsertEnv ==
    {EnvOf(g, "ok", "ok", "ok", 0) : g \in {"ok", "Fault", "RateLimit", "TooLarge"}}
    \cup {EnvOf("ok", "ok", "ok", "fail", 0),
          EnvOf("TooLarge", "fail", "ok", "ok", 0),
          EnvOf("TooLarge", "ok", "fail", "ok", 0)}

\* What callers hand to upsert: a path, spelled with or without the leading
\* separator, and the new content; the last is P22 with another entry of the
\* document information in the place of the creation date
UpsertInputs ==
    {<<F1, <<"a">>>>, <<<<SEP>> \o F1, <<"a">>>>, <<<<SEP>> \o F1, <<" ", "a", "\t">>>>,
     <<F1, <<" ">>>>, <<<<SEP>> \o F1, P22>>, <<<<SEP>> \o F1, PB22>>,
     <<<<SEP>> \o F1, [P22 EXCEPT ![15] = "/Creator"]>>}

\* What the remote may hold without the writer having put it there
StoredContents == {<<>>, <<" ", "a">>, P11, PB11}

FetchInputs ==
    {<<DefaultBranch, F1>>, <<DefaultBranch, <<SEP>> \o F1>>, <<OtherBranch, <<SEP>> \o F1>>}

\* The first of two like upserts in a row, as the second remembers it
NoAgain == [is |-> FALSE, writes |-> 0, before |-> NoFile]

NoLast == [op |-> "none", branch |-> "", number |-> 0, path |-> <<>>, content |-> <<>>,
           before |-> NoFile, status |-> "ok", outcome |-> "", bytes |-> <<>>,
           sha |-> EmptySha, calls |-> <<>>, slept |-> 0, reset |-> 0, out |-> <<>>,
           again |-> NoAgain, ups |-> <<>>, store |-> <<>>,
           resumed |-> [is |-> FALSE, done |-> <<>>, store |-> <<>>]]

\* An invocation of upsert that has not started: where it stands (pc), what
\* it was given, the answers env the remote gives to its calls, the outcome
\* f of its fetch, the file the branch held when it fetched (seen) and when
\* it wrote (replaced), whether the other invocation wrote in between
\* (stale), its place among the invocations that ended (at), and its result
NoRun == [pc |-> "idle", path |-> <<>>, content |-> <<>>,
          env |-> EnvOf("ok", "ok", "ok", "ok", 0), f |-> Sentinel(<<>>, 0),
          seen |-> NoFile, replaced |-> NoFile, stale |-> FALSE, at |-> 0,
          status |-> "ok", outcome |-> "", calls |-> <<>>]

NoRuns == [i \in 1..2 |-> NoRun]

\* The create-file and update-file calls among the calls of an operation
Writes(calls) == Cardinality({i \in 1..Len(calls) : calls[i].api \in {"create", "update"}})

\* No call of the operation was answered with a fault; that the file is not
\* there (404) is an answer, not a fault
FaultFree(calls) == \A i \in 1..Len(calls) : calls[i].resp \in {"ok", "NotFound"}

\* The manifest of the writer's specification
SheetTwo == <<[num |-> "1", link |-> <<"https:", "/", "master", "/", "x">>],
              [num |-> "2", link |-> <<"https:", "/", "2", "/", "x">>]>>

\* The remote before the first operation: the manifest and F2 are there,
\* F1 is absent on the default branch and as c1 says on the other
InitFiles(rows, c1) ==
    [k \in Branches \X Keys |->
        IF k[2] = F2 THEN FileOf(<<"b">>)
        ELSE IF k = <<DefaultBranch, ManifestKey>> THEN FileOf(RenderCsv(rows))
        ELSE IF k = <<OtherBranch, F1>> THEN c1
        ELSE NoFile]

Init ==
    /\ sheet = SheetTwo
    /\ \E c1 \in {NoFile, FileOf(<<" ", "a">>)} : files = InitFiles(sheet, c1)
    /\ tree = {}
    /\ pulls = <<>>
    /\ commits = <<>>
    /\ last = NoLast
    /\ runs = NoRuns

RecordFetch(b, p, f) ==
    [NoLast EXCEPT !.op = "fetch", !.branch = b, !.path = p,
                   !.before = lookup(files, b, p),
                   !.status = f.status, !.bytes = f.bytes, !.sha = f.sha,
                   !.calls = f.calls, !.slept = f.slept]

Fetched(b, p, env) ==
    /\ last' = [RecordFetch(b, p, get_file_content_from_repo(files, b, p, env))
                    EXCEPT !.reset = env.reset]
    /\ UNCHANGED <<files, sheet, tree, pulls, commits, runs>>

RecordUpsert(b, p, x, r) ==
    [NoLast EXCEPT !.op = "upsert", !.branch = b, !.path = p, !.content = x,
                   !.before = lookup(files, b, p),
                   !.status = r.status, !.outcome = r.outcome,
                   !.bytes = r.bytes, !.sha = r.sha,
                   !.calls = r.calls, !.slept = r.slept,
                   !.again = IF /\ last.op = "upsert" /\ last.branch = b
                                /\ last.path = p /\ last.content = x
                                /\ FaultFree(last.calls) /\ FaultFree(r.calls)
                             THEN [is |-> TRUE, writes |-> Writes(last.calls),
                                   before |-> last.before]
                             ELSE NoAgain]

UpsertStep(b, p, x, r) ==
    /\ files' = r.store
    /\ last' = RecordUpsert(b, p, x, r)
    /\ UNCHANGED <<sheet, tree, pulls, commits, runs>>

Upserted(b, p, x, env) ==
    UpsertStep(b, p, x, create_or_update_file_in_github_repo(files, b, p, x, env))

\* A caller fetches a file
Fetch == \E in \in FetchInputs, env \in FetchEnv : Fetched(in[1], in[2], env)

\* A caller upserts a file on the default branch
Upsert == \E in \in UpsertInputs, env \in UpsertEnv : Upserted(DefaultBranch, in[1], in[2], env)

\* Somebody else changes the remote
Modified(b, k, cell) ==
    /\ files[<<b, k>>] # cell
    /\ files' = [files EXCEPT ![<<b, k>>] = cell]
    /\ last' = [NoLast EXCEPT !.op = "modify", !.branch = b, !.path = k,
                              !.content = cell.content, !.before = files[<<b, k>>]]
    /\ UNCHANGED <<sheet, tree, pulls, commits, runs>>

Modify == \E cell \in {NoFile} \cup {FileOf(c) : c \in StoredContents} :
              Modified(DefaultBranch, F1, cell)

RecordManifest(r) ==
    [NoLast EXCEPT !.op = "manifest", !.branch = DefaultBranch,
                   !.path = <<SEP>> \o ManifestKey,
                   !.before = lookup(files, DefaultBranch, ManifestKey),
                   !.status = r.status, !.out = r.out, !.calls = r.calls,
                   !.bytes = r.bytes, !.sha = r.sha]

ParsedManifest(env) ==
    /\ last' = RecordManifest(get_rfd_sync_updates(files, DefaultBranch, env))
    /\ UNCHANGED <<files, sheet, tree, pulls, commits, runs>>

\* A caller reads the manifest
ParseManifest == \E env \in FetchEnv : ParsedManifest(env)

Next == Fetch \/ Upsert \/ Modify \/ ParseManifest

Spec == Init /\ [][Next]_vars

-----------------------------------------------------------------------------
(* The manifest parser over the manifests somebody may have written *)

\* Rows of the manifest file
MaxRows == 2

\* The rows a manifest may hold: the num column is a number or not, the link
\* column names the default branch, another branch, a name that only starts
\* like the default branch, or holds a delimiter or bytes that are no UTF-8
ManifestRows ==
    {[num |-> n, link |-> l] :
        n \in {"1", "2", "-1", "one"},
        l \in {<<"https:", "/", "master", "/", "x">>, <<"https:", "/", "2", "/", "x">>,
               <<"https:", "/", "mast", "/", "master">>}}
    \cup {[num |-> "7", link |-> <<"https:", "/", "master", "/", "x", ",", "x">>],
          [num |-> "7", link |-> <<"https:", "/", "0xFF", "/", "x">>]}

RECURSIVE SeqsUpTo(_, _)
SeqsUpTo(S, n) ==
    IF n = 0 THEN {<<>>}
    ELSE SeqsUpTo(S, n - 1) \cup {Append(s, x) : s \in {q \in SeqsUpTo(S, n - 1) : Len(q) = n - 1}, x \in S}

InitManifest ==
    /\ sheet \in SeqsUpTo(ManifestRows, MaxRows)
    /\ files = InitFiles(sheet, NoFile)
    /\ tree = {}
    /\ pulls = <<>>
    /\ commits = <<>>
    /\ last = NoLast
    /\ runs = NoRuns

SpecManifest == InitManifest /\ [][ParseManifest]_vars

-----------------------------------------------------------------------------
(* The operations of a view over the trees its branch may hold *)

\* The calls of an operation up to which one may be answered with a fault
MaxFaultAt == 3

ViewEnv == {[fault_at |-> k] : k \in 0..MaxFaultAt}

RecordView(op, view, number, r) ==
    [NoLast EXCEPT !.op = op, !.branch = view.branch, !.number = number,
                   !.status = r.status, !.outcome = r.outcome, !.out = r.out,
                   !.calls = r.calls]

ResolvedReadme(b, n, env) ==
    /\ last' = RecordView("readme", branch_view(DefaultBranch, b), n,
                          get_readme_contents(tree, branch_view(DefaultBranch, b), n, env))
    /\ UNCHANGED <<files, sheet, tree, pulls, commits, runs>>

CollectedImages(b, n, env) ==
    /\ last' = RecordView("images", branch_view(DefaultBranch, b), n,
                          get_images(tree, branch_view(DefaultBranch, b), n, env))
    /\ UNCHANGED <<files, sheet, tree, pulls, commits, runs>>

\* A caller asks a view for the README of a document
ResolveReadme == \E b \in Branches, n \in DocNumbers, env \in ViewEnv : ResolvedReadme(b, n, env)

\* A caller asks a view for the images of a document
CollectImages == \E b \in Branches, n \in DocNumbers, env \in ViewEnv : CollectedImages(b, n, env)

InitView ==
    /\ sheet = SheetTwo
    /\ files = InitFiles(sheet, NoFile)
    /\ tree \in SUBSET (TreeFiles \ {Under(RfdDir, <<"r", ".png">>)})
    /\ pulls = <<>>
    /\ commits = <<>>
    /\ last = NoLast
    /\ runs = NoRuns

NextView == ResolveReadme \/ CollectImages

SpecView == InitView /\ [][NextView]_vars

-----------------------------------------------------------------------------
(* Pull request lookup over the listings the repository may give *)

\* Pull requests of the repository
MaxPulls == 3

\* Head refs: with the ref namespace, without it, and of a branch whose own
\* name starts with the namespace
PullRefs ==
    {<<RefsHeads, "3">>, <<RefsHeads, "4">>, <<"3">>, <<RefsHeads, RefsHeads, "3">>}

ViewBranches == {"3", "4", "refs/heads/3"}

PullsOf(refs) == [i \in 1..Len(refs) |-> [number |-> i, head |-> [ref_ |-> refs[i]]]]

FoundPulls(b, env) ==
    /\ last' = RecordView("pulls", branch_view(DefaultBranch, b), 0,
                          find_pull_requests(pulls, branch_view(DefaultBranch, b), env))
    /\ UNCHANGED <<files, sheet, tree, pulls, commits, runs>>

\* A caller asks a view for the pull requests of its branch
FindPullRequests == \E b \in ViewBranches, k \in 0..1 : FoundPulls(b, [fault_at |-> k])

InitPulls ==
    /\ sheet = SheetTwo
    /\ files = InitFiles(sheet, NoFile)
    /\ tree = {}
    /\ pulls \in {PullsOf(refs) : refs \in SeqsUpTo(PullRefs, MaxPulls)}
    /\ commits = <<>>
    /\ last = NoLast
    /\ runs = NoRuns

SpecPulls == InitPulls /\ [][FindPullRequests]_vars

-----------------------------------------------------------------------------
(* The commit date lookup over the histories the repository may have *)

\* Commits of the repository
MaxCommits == 2

\* The commits a history may hold: on the view's branch below the document
\* directory with a date in either spelling of UTC, without a committer and
\* with a committer without a date, below another document, and on the
\* default branch; the committer is an Option<Tagger>
CommitKinds ==
    {[branch |-> TreeBranch, path |-> DocDir, committer |-> [some |-> s, date |-> d]] :
        s \in BOOLEAN,
        d \in {<<"2021", "-03-04T05:06:07", "Z">>, <<"2020", "-03-04T05:06:07", "+00:00">>,
                <<>>}}
    \cup {[branch |-> TreeBranch, path |-> <<"rfd", SEP, "2">>,
           committer |-> [some |-> TRUE, date |-> <<"2020", "-01-01T00:00:00", "Z">>]],
          [branch |-> DefaultBranch, path |-> DocDir,
           committer |-> [some |-> TRUE, date |-> <<"2021", "-01-01T00:00:00", "Z">>]]}

\* A caller asks a view for the date of the latest commit to a document
GetLatestCommitDate ==
    \E b \in Branches, n \in DocNumbers, k \in 0..1 :
        /\ last' = RecordView("commit_date", branch_view(DefaultBranch, b), n,
                              get_latest_commit_date(commits, branch_view(DefaultBranch, b),
                                                     n, [fault_at |-> k]))
        /\ UNCHANGED <<files, sheet, tree, pulls, commits, runs>>

InitCommits ==
    /\ sheet = SheetTwo
    /\ files = InitFiles(sheet, NoFile)
    /\ tree = {}
    /\ pulls = <<>>
    /\ commits \in SeqsUpTo(CommitKinds, MaxCommits)
    /\ last = NoLast
    /\ runs = NoRuns

SpecCommits == InitCommits /\ [][GetLatestCommitDate]_vars

-----------------------------------------------------------------------------
(* The copy of the images of a document to the default branch *)

\* The upsert of the loop up to which one may be answered with faults, and
\* after which the process may be killed
MaxAt == 2

\* No fault on the walk or on an upsert, and the process is not killed
NoCopyFault ==
    [fault_at |-> 0, at |-> 0, kill_after |-> 0 - 1,
     up |-> [get |-> "ok", list |-> "ok", blob |-> "ok", write |-> "ok", reset |-> 0]]

\* A fault on one call of the walk, faults on the calls of one upsert, or
\* the process killed
CopyEnv ==
    {[NoCopyFault EXCEPT !.fault_at = k] : k \in 0..MaxFaultAt}
    \cup {[NoCopyFault EXCEPT !.at = a, !.up = u] :
              a \in 1..MaxAt,
              u \in {EnvOf("Fault", "ok", "ok", "ok", 0), EnvOf("ok", "ok", "ok", "fail", 0),
                     EnvOf("TooLarge", "fail", "ok", "ok", 0)}}
    \cup {[NoCopyFault EXCEPT !.kill_after = k] : k \in 0..MaxAt}

\* The copy r of the images of document n by the view of branch b
CopyStep(b, n, env, r) ==
    /\ files' = r.store
    /\ last' = [RecordView("copy", branch_view(DefaultBranch, b), n, r)
                    EXCEPT !.ups = r.ups, !.store = files,
                           !.resumed =
                               IF /\ last.op = "copy" /\ last.status = "killed"
                                  /\ last.branch = b /\ last.number = n
                                  /\ env = NoCopyFault
                               THEN [is |-> TRUE, done |-> last.ups, store |-> last.store]
                               ELSE NoLast.resumed]
    /\ UNCHANGED <<sheet, tree, pulls, commits, runs>>

\* A caller asks a view to copy the images of a document
CopyImages ==
    \E b \in Branches, n \in DocNumbers, env \in CopyEnv :
        CopyStep(b, n, env,
                 copy_images_to_frontend(tree, files, branch_view(DefaultBranch, b), n, env))

\* The remote before the first copy: the default branch holds one of the
\* images already, with other bytes, or none; the branch of the view holds a
\* file at the path of a copy
InitCopy ==
    /\ sheet = SheetTwo
    /\ tree \in SUBSET {Under(DocDir, <<"a", ".png">>), Under(SubDir, <<"c", ".png">>),
                         Under(PngDir, <<"g", ".png">>), Under(RfdDir, <<"r", ".png">>)}
    /\ \E c \in {NoFile, FileOf(<<"x">>)} :
          files = [k \in Branches \X
                        (Keys \cup {replace(TreeEntries[i].path, <<"rfd", SEP>>, StaticImages) :
                                        i \in 1..Len(TreeEntries)}) |->
                      IF k[2] = F2 THEN FileOf(<<"b">>)
                      ELSE IF k[2] = StaticImages \o <<"1", SEP, "a", ".png">>
                      THEN (IF k[1] = DefaultBranch THEN c ELSE FileOf(<<"x">>))
                      ELSE NoFile]
    /\ pulls = <<>>
    /\ commits = <<>>
    /\ last = NoLast
    /\ runs = NoRuns

SpecCopy == InitCopy /\ [][CopyImages]_vars

-----------------------------------------------------------------------------
(* Two invocations of create_or_update_file_in_github_repo on one path of   *)
(* the default branch.  An invocation is two steps: its fetch               *)
(* (utils.rs:129), then the rest (utils.rs:131-200) with the write call.    *)
(* The steps of the two invocations come in any order.                      *)

\* utils.rs:120-129: invocation i is called and fetches
RaceFetched(i, p, x, env) ==
    /\ runs[i].pc = "idle"
    /\ runs' = [runs EXCEPT ![i] =
                   [@ EXCEPT !.pc = "fetched", !.path = p, !.content = x, !.env = env,
                             !.f = get_file_content_from_repo(files, DefaultBranch, p, env),
                             !.seen = lookup(files, DefaultBranch, p)]]
    /\ UNCHANGED <<files, sheet, tree, pulls, commits, last>>

RaceFetch == \E i \in 1..2, in \in UpsertInputs, env \in UpsertEnv :
                 RaceFetched(i, in[1], in[2], env)

\* Invocation i ends with the result r
RaceStep(i, r) ==
    /\ files' = r.store
    /\ runs' = [j \in 1..2 |->
                   IF j = i
                   THEN [runs[i] EXCEPT
                            !.pc = "done", !.status = r.status, !.outcome = r.outcome,
                            !.calls = r.calls,
                            !.replaced = lookup(files, DefaultBranch, runs[i].path),
                            !.at = 1 + Cardinality({k \in 1..2 : runs[k].pc = "done"})]
                   ELSE [runs[j] EXCEPT
                            !.stale = @ \/ (/\ runs[j].pc = "fetched"
                                            /\ r.outcome \in {"created", "updated"})]]
    /\ UNCHANGED <<sheet, tree, pulls, commits, last>>

\* utils.rs:131-200: invocation i goes on with what it fetched, against the
\* remote as it is now
RaceWritten(i) ==
    /\ runs[i].pc = "fetched"
    /\ RaceStep(i, upsert_fetched(files, DefaultBranch, normalize_path(runs[i].path),
                                  trim(runs[i].content), runs[i].env, runs[i].f))

RaceWrite == \E i \in 1..2 : RaceWritten(i)

\* The remote before the two invocations: the path is absent or holds a file
InitRace ==
    /\ sheet = SheetTwo
    /\ \E c1 \in {NoFile} \cup {FileOf(c) : c \in StoredContents} :
          files = [InitFiles(sheet, NoFile) EXCEPT ![<<DefaultBranch, F1>>] = c1]
    /\ tree = {}
    /\ pulls = <<>>
    /\ commits = <<>>
    /\ last = NoLast
    /\ runs = NoRuns

NextRace == RaceFetch \/ RaceWrite

SpecRace == InitRace /\ [][NextRace]_vars

-----------------------------------------------------------------------------
(* Properties of the content writer and fetcher, checked under Spec *)

IsSentinel(bytes, sha) == bytes = <<>> /\ sha = EmptySha

\* The fetch was answered "too large" and the fallback served the file
FallbackServed(l) ==
    /\ l.status = "ok"
    /\ Len(l.calls) >= 3
    /\ l.calls[1].resp = "TooLarge"
    /\ l.calls[3].api = "blob"
    /\ l.calls[3].resp = "ok"

C1_HoldsX(cell, x) == cell.exists /\ (cell.content = x \/ cell.content = trim(x))

C1_Cosmetic(old, new) ==
    is_cosmetic_diff(from_utf8_or_empty(patch_to_bytes(create_patch_bytes(old, new))))

\* C1, as stated: two upserts of the same path, branch and content X in a
\* row, no fault and nobody else writing: when the remote did not hold X the
\* first call issues exactly one write and the second none
C1_Original ==
    (last.op = "upsert" /\ last.again.is /\ ~C1_HoldsX(last.again.before, last.content))
        => (last.again.writes = 1 /\ Writes(last.calls) = 0)

\* C1, amended: the second of the two calls never writes, and the first
\* writes exactly once unless the remote already holds the trimmed X or the
\* diff from what it holds to the trimmed X has the cosmetic date pattern, in
\* which case it does not write either
C1_SecondCallNoWrite ==
    (last.op = "upsert" /\ last.again.is)
        => /\ Writes(last.calls) = 0
           /\ last.again.writes <= 1
           /\ last.again.writes = 1 <=>
                ~(/\ last.again.before.exists
                  /\ \/ last.again.before.content = trim(last.content)
                     \/ C1_Cosmetic(last.again.before.content, trim(last.content)))

C1_Witness ==
    /\ last.op = "upsert" /\ last.again.is
    /\ last.again.writes = 1 /\ Writes(last.calls) = 0
    /\ last.again.before.exists
    /\ last.content # trim(last.content)

\* C2: a single upsert issues at most one create-file or update-file call,
\* whatever the remote holds and whatever fault it answers with
C2_AtMostOneWrite == last.op = "upsert" => Writes(last.calls) <= 1

C2_Witness ==
    /\ last.op = "upsert" /\ last.outcome = "update_failed"
    /\ Writes(last.calls) = 1

\* The fetch of the upsert gave the file the remote holds
C3_Retrievable ==
    /\ last.op = "upsert" /\ last.status = "ok"
    /\ last.before.exists
    /\ last.bytes = last.before.content /\ last.sha = Sha(last.before.content)

C3_Changed(s, tag) == {k \in 1..Len(s) : s[k].tag = tag}

\* The diff s is one hunk at "@@ -5,8 +5,8 @@" that takes out a /CreationDate
\* and a /ModDate line and puts in a /CreationDate and a /ModDate line, and
\* changes no other line
C3_DateSwap(s) ==
    /\ Len(hunks_of(s)) = 1
    /\ hunk_header(s, hunks_of(s)[1]) = "@@ -5,8 +5,8 @@"
    /\ \A tag \in {"-", "+"} :
          /\ \A k \in C3_Changed(s, tag) : s[k].line[1] \in {"/ModDate", "/CreationDate"}
          /\ \E k \in C3_Changed(s, tag) : s[k].line[1] = "/ModDate"
          /\ \E k \in C3_Changed(s, tag) : s[k].line[1] = "/CreationDate"

\* C3, as stated: when the existing file is retrievable and differs from the
\* new bytes only in one hunk at "@@ -5,8 +5,8 @@" that replaces the /ModDate
\* and /CreationDate lines, upsert issues neither create-file nor update-file
C3_CosmeticSuppressed ==
    (/\ C3_Retrievable
     /\ last.bytes # trim(last.content)
     /\ C3_DateSwap(create_patch_bytes(last.bytes, trim(last.content))))
        => Writes(last.calls) = 0

\* The dates of a PDF with binary bytes next to them are replaced
C3_Witness ==
    /\ C3_Retrievable
    /\ last.bytes = PB11 /\ trim(last.content) = PB22
    /\ C3_DateSwap(create_patch_bytes(last.bytes, trim(last.content)))
    /\ Writes(last.calls) = 1

\* C4, as stated: when the content call is answered "too large" and the
\* fallback finds the file, fetch returns exactly the bytes of the blob and
\* the revisionId of the listed entry
C4_FallbackIdentical ==
    (last.op = "fetch" /\ FallbackServed(last))
        => /\ last.bytes = last.before.content
           /\ last.sha = Sha(last.before.content)

\* C9, as stated: the sentinel is never taken for a valid empty document:
\* upsert creates exactly when its fetch gave the sentinel and updates or
\* leaves alone an empty file that is there, and the manifest parse does not
\* succeed with no records when its fetch gave the sentinel
C9_SentinelNotValidEmpty ==
    /\ (last.op = "upsert" /\ last.status = "ok")
          => /\ IsSentinel(last.bytes, last.sha)
                  <=> (\E i \in 1..Len(last.calls) : last.calls[i].api = "create")
             /\ (last.calls[1].resp = "ok" /\ last.before.content = <<>>)
                  => ~IsSentinel(last.bytes, last.sha)
    /\ (last.op = "manifest" /\ IsSentinel(last.bytes, last.sha) /\ last.calls[1].resp # "ok")
          => ~(last.status = "ok" /\ last.out = <<>>)

\* C10, as stated: whatever fault the content call is answered with, short
\* of a served fallback, fetch ends normally and returns the sentinel
C10_FetchNeverFails ==
    (last.op = "fetch" /\ last.calls[1].resp # "ok" /\ ~FallbackServed(last))
        => (last.status = "ok" /\ IsSentinel(last.bytes, last.sha))

C11_ContentCalls == {i \in 1..Len(last.calls) : last.calls[i].api = "get_content"}

\* C11: a fetch makes exactly one get-content-file call, its first; when that
\* call is answered with a rate limit the fetch sleeps for the reset interval
\* of the answer plus 5 seconds, makes no call after the sleep and returns the
\* sentinel
C11_RateLimitWait ==
    last.op = "fetch"
        => /\ C11_ContentCalls = {1}
           /\ last.calls[1].resp = "RateLimit"
                => /\ last.status = "ok" /\ IsSentinel(last.bytes, last.sha)
                   /\ last.slept = last.reset + 5
                   /\ Len(last.calls) = 2 /\ last.calls[2].api = "sleep"

\* A fetch answered with a rate limit that asks for a second of wait
C11_Witness ==
    /\ last.op = "fetch" /\ last.calls[1].resp = "RateLimit"
    /\ last.reset = 1 /\ last.slept = 6
    /\ last.before.exists

\* The fetch of the upsert found the file the remote holds, by the content
\* call or by the fallback
C15_Found ==
    /\ last.op = "upsert" /\ last.status = "ok"
    /\ last.before.exists
    /\ last.sha = Sha(last.before.content)

\* C15, as stated: when the existing file is retrievable and its bytes,
\* trimmed, equal the new bytes, trimmed, upsert issues no write, also when
\* the stored bytes begin or end with tab or space bytes
C15_TrimmedEqualNoWrite ==
    (C15_Found /\ trim(last.before.content) = trim(last.content))
        => Writes(last.calls) = 0

\* The diff s is one hunk at "@@ -5,8 +5,8 @@" and every line it takes out or
\* puts in is a /ModDate or a /CreationDate line
C16_DatesOnly(s) ==
    /\ Len(hunks_of(s)) = 1
    /\ hunk_header(s, hunks_of(s)[1]) = "@@ -5,8 +5,8 @@"
    /\ \A k \in C3_Changed(s, "-") \cup C3_Changed(s, "+") :
          s[k].line[1] \in {"/ModDate", "/CreationDate"}

\* C16, as stated: when the existing file is retrievable and differs from the
\* new bytes, and the diff has another hunk or another changed line than the
\* date lines of the one hunk at "@@ -5,8 +5,8 @@", upsert issues exactly one
\* update-file call
C16_SuppressedOnlyIfDates ==
    (/\ C3_Retrievable
     /\ last.bytes # trim(last.content)
     /\ ~C16_DatesOnly(create_patch_bytes(last.bytes, trim(last.content))))
        => /\ Writes(last.calls) = 1
           /\ last.calls[Len(last.calls)].api = "update"

\* C17: every update-file call of an upsert comes after the fetch of that
\* upsert, which gave a file and not the sentinel, is the last call, and
\* carries the revisionId the fetch returned, the new content trimmed, the
\* branch of the upsert and the path with its leading separator, as the
\* fetch read it
C17_UpdateCarriesFetch ==
    last.op = "upsert"
        => \A i \in 1..Len(last.calls) :
              last.calls[i].api = "update"
                  => /\ i > 1 /\ i = Len(last.calls)
                     /\ last.calls[1].api = "get_content"
                     /\ ~IsSentinel(last.bytes, last.sha)
                     /\ last.calls[i].sha = last.sha
                     /\ last.calls[i].content = trim(last.content)
                     /\ last.calls[i].branch = last.branch
                     /\ last.calls[1].branch = last.branch
                     /\ last.calls[i].path[1] = SEP
                     /\ last.calls[i].path \in {last.path, <<SEP>> \o last.path}
                     /\ last.calls[i].path = last.calls[1].path

\* An update of a path given without its separator, with content to trim
C17_Witness ==
    /\ last.op = "upsert" /\ last.outcome = "updated"
    /\ last.path = F1
    /\ last.content # trim(last.content)
    /\ last.calls[Len(last.calls)].api = "update"

\* C22, as stated: an upsert that runs with no other writer issues a
\* create-file call only for a path that is absent from the target branch
\* when the upsert starts, also when its fetch was answered with a fault
C22_CreateOnlyIfAbsent ==
    last.op = "upsert"
        => \A i \in 1..Len(last.calls) :
              last.calls[i].api = "create" => ~last.before.exists

-----------------------------------------------------------------------------
(* Properties of the views, checked under SpecView and SpecPulls *)

C5_AdocPath == Under(repo_directory(last.number), <<"README", ".adoc">>)

C5_MdPath == Under(repo_directory(last.number), <<"README", ".md">>)

\* The request for README.adoc failed and the view's branch holds README.md,
\* which the remote serves
C5_OnlyMarkdown ==
    /\ last.op = "readme"
    /\ last.calls[1].path = C5_AdocPath /\ last.calls[1].resp # "ok"
    /\ last.branch = TreeBranch /\ remote_key(C5_MdPath) \in tree
    /\ \A i \in 1..Len(last.calls) : last.calls[i].resp # "Fault" \/ i = 1

\* C5: when the request for README.adoc fails and README.md is there, the
\* README resolves, tagged Markdown, with the revisionId, link and path of
\* README.md; and a resolved README is tagged AsciiDoc exactly when it is
\* README.adoc that resolved
C5_FormatFallback ==
    /\ C5_OnlyMarkdown
          => /\ last.status = "ok" /\ Len(last.out) = 1
             /\ last.out[1].content.format = "markdown"
             /\ last.out[1].sha = Sha(content_of(remote_key(C5_MdPath)))
             /\ last.out[1].link = html_url(last.branch, remote_key(C5_MdPath))
             /\ last.out[1].location.file = C5_MdPath
    /\ (last.op = "readme" /\ last.status = "ok")
          => (last.out[1].content.format = "asciidoc"
                <=> /\ last.calls[Len(last.calls)].path = C5_AdocPath
                    /\ last.calls[Len(last.calls)].resp = "ok")

\* README.adoc is there but the request for it is answered with a fault, and
\* README.md resolves
C5_Witness ==
    /\ C5_OnlyMarkdown
    /\ remote_key(C5_AdocPath) \in tree
    /\ last.status = "ok" /\ last.out[1].content.format = "markdown"

\* C18: the first request of resolveReadme is for README.adoc; README.md is
\* requested only as the second request and only after the first failed;
\* when README.adoc resolves nothing else is requested and the README is
\* tagged AsciiDoc, also when the branch holds README.md; when both requests
\* fail the error returned is that of the request for README.md
C18_AdocFirst ==
    last.op = "readme"
        => /\ last.calls[1].path = C5_AdocPath
           /\ \A i \in 1..Len(last.calls) :
                 last.calls[i].path = C5_MdPath => (i = 2 /\ last.calls[1].resp # "ok")
           /\ last.calls[1].resp = "ok"
                 => /\ Len(last.calls) = 1
                    /\ last.status = "ok" /\ Len(last.out) = 1
                    /\ last.out[1].content.format = "asciidoc"
                    /\ last.out[1].location.file = C5_AdocPath
           /\ last.calls[1].resp # "ok"
                 => /\ Len(last.calls) = 2 /\ last.calls[2].path = C5_MdPath
                    /\ last.calls[2].resp # "ok"
                          => /\ last.status = "err" /\ last.out = <<>>
                             /\ last.outcome = last.calls[2].resp

\* Both requests fail, each in its own way
C18_Witness ==
    /\ last.op = "readme" /\ last.status = "err"
    /\ last.calls[1].resp = "Fault"
    /\ last.calls[2].resp = "NotFound" /\ last.outcome = "NotFound"
    /\ remote_key(C5_AdocPath) \in tree /\ last.branch = TreeBranch

\* How many levels below the document directory a path is
C6_Depth(p) ==
    Cardinality({i \in 1..Len(remote_key(p)) : remote_key(p)[i] = SEP})
        - Cardinality({i \in 1..Len(remote_key(repo_directory(last.number))) :
                          remote_key(repo_directory(last.number))[i] = SEP})

C6_InDocument(p) == is_under(p, remote_key(repo_directory(last.number)))

\* C6: a walk that completes returns every image file one or two levels
\* below the document directory, lists nothing but the document directory
\* and its direct subdirectories, and fetches and returns nothing from three
\* or more levels below
C6_DepthLimitedWalk ==
    (last.op = "images" /\ last.status = "ok")
        => /\ \A p \in tree :
                (C6_InDocument(p) /\ is_image(file_name(p)) /\ C6_Depth(p) \in {1, 2})
                    => \E i \in 1..Len(last.out) : last.out[i].path = p
           /\ \A i \in 1..Len(last.calls) :
                /\ last.calls[i].api \in {"list", "get_file"}
                /\ last.calls[i].api = "list" => C6_Depth(last.calls[i].path) <= 1
                /\ last.calls[i].api = "get_file" => C6_Depth(last.calls[i].path) <= 2
           /\ \A i \in 1..Len(last.out) : C6_Depth(last.out[i].path) <= 2

\* The walk of the tree with images at depths 1, 2 and 3 and a directory at
\* depth 2 returns the first two
C6_Witness ==
    /\ last.op = "images" /\ last.status = "ok" /\ last.number = 1
    /\ {Under(DocDir, <<"a", ".png">>), Under(SubDir, <<"c", ".png">>),
        Under(DeepDir, <<"e", ".png">>), Under(SubPngDir, <<"f", ".png">>)} \subseteq tree
    /\ \E i, j \in 1..Len(last.out) :
          /\ last.out[i].path = Under(DocDir, <<"a", ".png">>)
          /\ last.out[j].path = Under(SubDir, <<"c", ".png">>)

\* The entries of the document directory, as it is listed
C19_Top == dir_entries(tree, remote_key(repo_directory(last.number)))

\* What the entry e of the document directory contributes: the image files
\* it lists when it is a directory, itself when it is an image file
C19_Of(e) ==
    IF e.type_ = "dir"
    THEN SelectSeq(dir_entries(tree, e.path), LAMBDA c : c.type_ = "file" /\ is_image(c.name))
    ELSE IF is_image(e.name) THEN <<e>> ELSE <<>>

C19_Paths(es) == [i \in 1..Len(es) |-> es[i].path]

\* C19, as stated: a walk that completes returns the images in the order of
\* the listing of the document directory, the image files of a directory
\* entry at the place of that entry, and no walk fetches or returns an entry
\* that is a directory, whatever its name
C19_TraversalOrder ==
    last.op = "images"
        => /\ \A i \in 1..Len(last.calls) :
                 last.calls[i].api = "get_file" => last.calls[i].path \in tree
           /\ \A i \in 1..Len(last.out) : last.out[i].type_ = "file"
           /\ (last.status = "ok" /\ last.branch = TreeBranch)
                 => C19_Paths(last.out)
                        = C19_Paths(Flatten([i \in 1..Len(C19_Top) |-> C19_Of(C19_Top[i])]))

\* The commits of the history list_commits gives the view for the document
C20_Listing ==
    SelectSeq(commits, LAMBDA c : /\ c.branch = last.branch
                                  /\ c.path = remote_key(repo_directory(last.number)))

C20_Listed ==
    /\ last.op = "commit_date"
    /\ last.calls[1].resp = "ok"

\* The one call of the lookup lists the commits of the view's branch that
\* touch the document directory; the lookup fails when the listing is empty,
\* and when its first commit has no committer, whatever the later commits
C20_FirstOnly ==
    /\ last.op = "commit_date"
          => /\ Len(last.calls) = 1
             /\ last.calls[1].api = "list_commits"
             /\ last.calls[1].branch = last.branch
             /\ last.calls[1].path = repo_directory(last.number)
    /\ (C20_Listed /\ C20_Listing = <<>>) => last.status = "err"
    /\ (C20_Listed /\ C20_Listing # <<>> /\ ~C20_Listing[1].committer.some)
          => last.status = "err"

\* C20, as stated: the lookup considers only the first commit of the listing
\* for the document directory on the view's branch: it fails when the
\* listing is empty and when the first commit has no committer, and
\* otherwise returns the parsed committer date of the first commit
C20_Original ==
    /\ C20_FirstOnly
    /\ (C20_Listed /\ C20_Listing # <<>> /\ C20_Listing[1].committer.some)
          => /\ last.status = "ok"
             /\ last.out = <<parse_date(C20_Listing[1].committer.date)>>

\* C20, amended: as stated, but with a committer whose date does not parse
\* the lookup fails too, without falling back to a later commit
C20_FirstCommitDate ==
    /\ C20_FirstOnly
    /\ (C20_Listed /\ C20_Listing # <<>> /\ C20_Listing[1].committer.some)
          => IF parse_date(C20_Listing[1].committer.date).ok
             THEN /\ last.status = "ok"
                  /\ last.out = <<parse_date(C20_Listing[1].committer.date)>>
                  /\ last.out[1].year \in {2020, 2021}
             ELSE last.status = "err" /\ last.out = <<>>

\* The first commit has no committer, the second has one with a date
C20_Witness ==
    /\ C20_Listed /\ Len(C20_Listing) = 2
    /\ ~C20_Listing[1].committer.some
    /\ C20_Listing[2].committer.some /\ parse_date(C20_Listing[2].committer.date).ok
    /\ last.status = "err"

\* C14, as stated: of the operations of a view only resolveReadme and
\* getLatestCommitDate return an error; collectImages (and every other
\* operation), when a call to the remote fails, returns an empty result
C14_OnlyReadmeFails ==
    (last.op \notin {"none", "readme", "commit_date"}
     /\ \E i \in 1..Len(last.calls) : last.calls[i].resp \notin {"ok", "NotFound"})
        => (last.status = "ok" /\ last.out = <<>>)

\* A head ref with the leading "refs/heads/" taken off once
C8_StripOnce(ref) == IF starts_with(ref, <<RefsHeads>>) THEN Tail(ref) ELSE ref

C8_Matches(pull) == as_str(C8_StripOnce(pull.head.ref_)) = last.branch

\* C8, as stated: the pull requests returned for the view of branch B are
\* those of the listing whose head ref, "refs/heads/" stripped once, is B, in
\* the order of the listing
C8_PullsOfBranch ==
    (last.op = "pulls" /\ last.status = "ok")
        => last.out = SelectSeq(pulls, C8_Matches)

-----------------------------------------------------------------------------
(* Properties of the manifest parser, checked under SpecManifest *)

C7_Parses(row) ==
    /\ row.num \in DOMAIN I32Of
    /\ \A i \in 1..Len(row.link) : row.link[i] # ","

C7_Decimal == (1 :> "1") @@ (2 :> "2") @@ (7 :> "7") @@ ((0 - 1) :> "-1")

\* C7: the records of a manifest that was read are, in order, those of its
\* rows that parse: each has the number of its row and a view of the default
\* branch when the link holds "/<default branch>/", and else of the branch
\* named by the number in decimal
C7_ManifestResolution ==
    (last.op = "manifest" /\ last.status = "ok" /\ last.calls[1].resp = "ok")
        => /\ Len(last.out) = Len(SelectSeq(sheet, C7_Parses))
           /\ \A i \in 1..Len(last.out) :
                /\ last.out[i].number = I32Of[SelectSeq(sheet, C7_Parses)[i].num]
                /\ last.out[i].branch.branch =
                      IF contains(SelectSeq(sheet, C7_Parses)[i].link,
                                  <<"/", DefaultBranch, "/">>)
                      THEN DefaultBranch
                      ELSE C7_Decimal[last.out[i].number]

\* The row has an integer in its num column and a string, without a
\* delimiter, in its link column
C21_Parses(row) ==
    /\ row.num \in DOMAIN I32Of
    /\ \A i \in 1..Len(row.link) : row.link[i] \notin {",", "0xFF"}

\* C21, as stated: reading a manifest that the remote serves raises no
\* error and gives one record for each row that parses, in the order of the
\* rows, whatever the rows before and after it are
C21_OneRecordPerRow ==
    (last.op = "manifest" /\ last.calls[1].resp = "ok")
        => /\ last.status = "ok"
           /\ [i \in 1..Len(last.out) |-> last.out[i].number]
                 = [i \in 1..Len(SelectSeq(sheet, C21_Parses)) |->
                       I32Of[SelectSeq(sheet, C21_Parses)[i].num]]

\* The manifest of the example: rows 1 and 2 resolve to "master" and "2"
C7_Witness ==
    /\ last.op = "manifest" /\ last.status = "ok"
    /\ sheet = SheetTwo
    /\ Len(last.out) = 2
    /\ last.out[1].number = 1 /\ last.out[1].branch.branch = "master"
    /\ last.out[2].number = 2 /\ last.out[2].branch.branch = "2"

-----------------------------------------------------------------------------
(* Properties of the image copy, checked under SpecCopy *)

\* The path p with the leading "rfd/" rewritten to the static images prefix
C12_Rewritten(p) ==
    IF starts_with(p, <<"rfd", SEP>>) THEN StaticImages \o SubSeq(p, 3, Len(p)) ELSE p

\* C12, as stated: a copy that is not killed issues one upsert for each image
\* the walk returned, in the order of the walk, on the default branch and at
\* the path of the image with the leading "rfd/" rewritten to the static
\* images prefix; no copy writes to another branch than the default branch,
\* and no copy changes a file outside the static images prefix
C12_CopyToDefault ==
    last.op = "copy"
        => /\ last.status # "killed"
                 => /\ Len(last.ups) = Len(last.out)
                    /\ \A i \in 1..Len(last.ups) :
                          /\ last.ups[i].branch = DefaultBranch
                          /\ last.ups[i].path = C12_Rewritten(last.out[i].path)
           /\ \A i \in 1..Len(last.calls) :
                 last.calls[i].api \in {"create", "update"}
                     => last.calls[i].branch = DefaultBranch
           /\ \A k \in DOMAIN files :
                 (k[1] # DefaultBranch \/ ~starts_with(k[2], StaticImages))
                     => files[k] = last.store[k]

\* C13: when a copy was killed after some of its upserts and the same copy
\* is then run to its end, without a fault and with nobody else writing, the
\* remote is as one copy from the state before the killed one leaves it, and
\* the second copy issues no write for an image the killed one had upserted
C13_Resumable ==
    (last.op = "copy" /\ last.resumed.is /\ last.status = "ok")
        => /\ files = copy_images_to_frontend(tree, last.resumed.store,
                                              branch_view(DefaultBranch, last.branch),
                                              last.number, NoCopyFault).store
           /\ Len(last.ups) >= Len(last.resumed.done)
           /\ \A i \in 1..Len(last.resumed.done) :
                 /\ last.ups[i].path = last.resumed.done[i].path
                 /\ last.ups[i].writes = 0

\* A copy killed after two upserts that wrote, and its rerun, which writes
\* the third image
C13_Witness ==
    /\ last.op = "copy" /\ last.resumed.is /\ last.status = "ok"
    /\ Len(last.resumed.done) = 2
    /\ \A i \in 1..2 : last.resumed.done[i].writes = 1
    /\ Len(last.ups) >= 3 /\ last.ups[3].writes = 1

-----------------------------------------------------------------------------
(* Properties of two invocations of the writer at once, checked under       *)
(* SpecRace                                                                  *)

\* The file at the path of the two invocations
C23_File == files[<<DefaultBranch, F1>>]

\* Invocation i ended and issued a write call
C23_Wrote(i) == runs[i].pc = "done" /\ Writes(runs[i].calls) > 0

\* Invocation i ended and the remote accepted its write
C23_Accepted(i) == runs[i].pc = "done" /\ runs[i].outcome \in {"created", "updated"}

\* Invocation i ended, its write call was answered with a failure, which is
\* the last entry of its calls, and it returned without raising
C23_Rejected(i) ==
    /\ C23_Wrote(i)
    /\ runs[i].status = "ok"
    /\ runs[i].outcome \in {"create_failed", "update_failed"}
    /\ runs[i].calls[Len(runs[i].calls)].resp = "fail"

\* An accepted update replaced the file the invocation's fetch read, whose
\* revisionId the fetch returned; an accepted create replaced nothing
C23_ReplacedObserved(i) ==
    /\ runs[i].outcome = "updated"
          => /\ runs[i].replaced = runs[i].seen
             /\ runs[i].replaced.exists
             /\ Sha(runs[i].replaced.content) = runs[i].f.sha
    /\ runs[i].outcome = "created" => ~runs[i].replaced.exists

\* C23, as stated: whatever the order of the steps, an accepted write
\* replaces only what its invocation fetched, and of two invocations that
\* both issue a write call the one that writes second is rejected, ends
\* without raising, and leaves the remote with the content of the other
C23_SecondWriterRejected ==
    \A i \in 1..2 :
        /\ C23_Accepted(i) => C23_ReplacedObserved(i)
        /\ (C23_Wrote(1) /\ C23_Wrote(2) /\ runs[i].at = 2)
              => /\ C23_Rejected(i)
                 /\ C23_File = FileOf(trim(runs[3 - i].content))

\* C23, amended: an accepted write replaces only what its invocation
\* fetched.  An invocation that fetched before a write of the other was
\* accepted, and issues its write call after it, is rejected, is logged,
\* ends without raising and leaves the remote with the content of the other;
\* an invocation that fetched after the other ended is not rejected for that.
\* When both have ended the remote holds the content of the last accepted
\* write, or what it held at the start when no write was accepted.
C23_StaleWriteRejected ==
    /\ \A i \in 1..2 :
          /\ C23_Accepted(i) => C23_ReplacedObserved(i)
          /\ (C23_Wrote(i) /\ runs[i].stale)
                => /\ C23_Rejected(i)
                   /\ C23_Accepted(3 - i)
                   /\ C23_File = FileOf(trim(runs[3 - i].content))
          /\ (C23_Accepted(i) /\ (runs[i].at = 2 \/ ~C23_Accepted(3 - i)))
                => C23_File = FileOf(trim(runs[i].content))
    /\ (runs[1].pc = "done" /\ runs[2].pc = "done"
          /\ ~C23_Accepted(1) /\ ~C23_Accepted(2))
          => C23_File = runs[1].seen /\ C23_File = runs[2].seen

\* Both invocations fetched the same file, with other contents to write; the
\* first updated it, and the update of the second, which the remote would
\* else have answered, was rejected
C23_Witness ==
    \E i \in 1..2 :
        /\ runs[i].stale /\ runs[i].at = 2 /\ runs[i].outcome = "update_failed"
        /\ runs[i].env.write = "ok"
        /\ runs[3 - i].outcome = "updated"
        /\ runs[i].seen = runs[3 - i].seen
        /\ trim(runs[i].content) # trim(runs[3 - i].content)

====
